---- MODULE Spec2Model ----
(***************************************************************************)
(* State-machine model of api_hls_rebuilder.py: the poll loop of           *)
(* HLSRebuilder, its transcode-process supervision (_kill_ffmpeg,          *)
(* _start_ffmpeg), the output-directory cleanup (_clean_out_dir) and the   *)
(* signal handler of main, which interrupts the loop at any step.          *)
(*                                                                         *)
(* Positions are floats in the source; here a float is a record            *)
(* [nan, n] with n counted in tenths of a second (10.5 s is n = 105).      *)
(* Python's None is the empty tuple <<>>, a present value x is <<x>>.      *)
(***************************************************************************)
EXTENDS Integers, Sequences, FiniteSets, TLC

\* ------------------------------------------------------------------ bounds

\* Number of poll cycles (fetches) a behaviour may take.
MaxPolls == 3

\* Longest list of candidate URLs one discovery collects.
MaxCandidates == 3

\* --------------------------------------------------------- optional values

None == <<>>

Some(x) == <<x>>

Get(o) == o[1]

\* ------------------------------------------------------------- JSON values

\* A JSON scalar as json.loads returns it: an int/float, a str, or None;
\* "missing" marks a key that is absent from its object.
NumV(n) == [t |-> "num", n |-> n, s |-> ""]

StrV(s) == [t |-> "str", n |-> 0, s |-> s]

NullV == [t |-> "null", n |-> 0, s |-> ""]

NanV == [t |-> "nan", n |-> 0, s |-> ""]

MissingV == [t |-> "missing", n |-> 0, s |-> ""]

\* A decoded payload. shape "empty" is {}, "list" a non-dict JSON value,
\* "notrack" a dict without "track", "noid" a track object without "id",
\* "track" a dict with track.id = id and position = pos.
Doc(shape, id, pos) == [shape |-> shape, id |-> id, pos |-> pos]

EmptyDoc == Doc("empty", MissingV, MissingV)

ListDoc == Doc("list", MissingV, MissingV)

NoTrackDoc == Doc("notrack", MissingV, NumV(105))

NoIdDoc == Doc("noid", MissingV, NumV(105))

\* The documents the remote endpoint answers with: a track object without
\* id, and tracks 42 and 43 at several positions, track 42 once with its id
\* as a JSON number.
TrackDocs ==
    { Doc("track", StrV("42"), NumV(105)),
      Doc("track", NumV(42), NumV(160)),
      Doc("track", StrV("43"), NumV(0)) }

Docs == {NoIdDoc} \cup TrackDocs

\* What one HTTP exchange can come to: a decoded document, or one of the
\* exceptions urlopen / read / decode / json.loads raise.
FetchErrors == {"URLError", "JSONDecodeError", "TimeoutError", "UnicodeDecodeError"}

Ok(doc) == [err |-> "", doc |-> doc]

Err(e) == [err |-> e, doc |-> EmptyDoc]

Responses == {Ok(d) : d \in Docs} \cup {Err(e) : e \in FetchErrors}

\* ------------------------------------------------------------------ floats

Float(n) == [nan |-> FALSE, n |-> n]

NaN == [nan |-> TRUE, n |-> 0]

\* Python's a > b on floats: any comparison with NaN is False.
FloatGT(a, b) == ~a.nan /\ ~b.nan /\ a.n > b.n

\* Python's max(a, b): b if b > a else a.
PyMax(a, b) == IF FloatGT(b, a) THEN b ELSE a

\* ------------------------------------------------------------ conversions

\* str(x) of a JSON scalar (line 57): str(42) = "42", str("42") = "42",
\* str(None) = "None".
IntToStr(n) == CASE n = 42 -> "42" [] n = 43 -> "43"

PyStr(v) ==
    CASE v.t = "num" -> IntToStr(v.n)
      [] v.t = "str" -> v.s
      [] v.t = "null" -> "None"

\* float(s) of a string: the number it spells (in tenths), None when it
\* spells none (ValueError).
StrToFloat(s) == CASE s = "7" -> Some(Float(70)) [] OTHER -> None

\* float(x) (line 58): None when float() raises (TypeError on None,
\* ValueError on a non-numeric string).
PyFloat(v) ==
    CASE v.t = "num" -> Some(Float(v.n))
      [] v.t = "nan" -> Some(NaN)
      [] v.t = "str" -> StrToFloat(v.s)
      [] OTHER -> None

\* ------------------------------------------------------------ fetch_state

\* Exceptions fetch_state catches (line 50).
Caught == {"URLError", "JSONDecodeError"}

fetch_raises(resp) == resp.err /= "" /\ resp.err \notin Caught

\* The value fetch_state returns when it does not raise: None, or the
\* decoded document.
fetch_state(resp) == IF resp.err /= "" THEN None ELSE Some(resp.doc)

\* ---------------------------------------------------------- extract_track

Track(id, position) == [track_id |-> id, position |-> position]

\* state["track"]["id"] raises on a non-dict, a missing key or a track
\* that has no "id"; state.get("position", 0) defaults a missing key to 0.
extract_track(doc) ==
    IF doc.shape /= "track" THEN None
    ELSE LET position == IF doc.pos.t = "missing" THEN Some(Float(0))
                         ELSE PyFloat(doc.pos)
         IN  IF position = None THEN None
             ELSE Some(Track(PyStr(doc.id), PyMax(Get(position), Float(0))))

\* bool(state) of line 170: None and {} are falsy.
Truthy(state) == state /= None /\ Get(state).shape /= "empty"

\* track = extract_track(state) if state else None
LoopTrack(state) == IF Truthy(state) THEN extract_track(Get(state)) ELSE None

\* MEDIA_URL_TEMPLATE.format(id=track_id)
MediaUrl(track_id) == "https://swarmfm.boopdev.com/assets/music/" \o track_id \o ".mp3"

\* ------------------------------------------------------- stream_relay.py

\* The relay program's state: run_relay's position `pc`, args.stream_url,
\* the candidates list sniff_stream_url collected and its de-duplication
\* loop (index i of the for loop, seen, unique), the list `found` it
\* returned, the local stream_url, and the child run_relay started: the
\* URL in its command line, its status ("none" before it is spawned,
\* "running", "terminating" once sent SIGTERM, "exited") and exit code.
RelayState(arg, candidates) ==
    [ pc |-> "run_relay",
      arg |-> arg,
      candidates |-> candidates,
      i |-> 0,
      seen |-> {},
      unique |-> <<>>,
      found |-> <<>>,
      stream_url |-> arg,
      proc |-> [url |-> "", status |-> "none", code |-> 0] ]

\* The relay program is not part of a run of api_hls_rebuilder.py.
NoRelay == [RelayState(None, <<>>) EXCEPT !.pc = "none"]

\* ------------------------------------------------------------------- state

VARIABLES
    pc,              \* position of the main thread (loop or signal handler)
    caller,          \* who called _kill_ffmpeg: "start" or "stop"
    _stop,           \* HLSRebuilder._stop (threading.Event)
    _current_track,  \* HLSRebuilder._current_track: None or Some(id)
    _ffmpeg_proc,    \* HLSRebuilder._ffmpeg_proc: 0 is None, else an index of procs
    state,           \* loop local: what fetch_state returned
    args,            \* _start_ffmpeg's arguments: None or Some([media_url, start_at])
    victim,          \* the handle _kill_ffmpeg was entered with
    handle,          \* the child Popen has created but line 159 has not stored yet
    procs,           \* every transcode process spawned so far
    dir_exists,      \* out_dir.exists()
    out_dir,         \* the entries of the output directory
    todo,            \* the entries out_dir.iterdir() has still to yield
    fetched,         \* history: the fetch results the loop body has examined
    starts,          \* history: the _start_ffmpeg invocations, in order
    polls,           \* number of fetch_state calls made
    signals,         \* number of signals delivered
    error,           \* the exception that ended the program, and where it rose
    relay            \* stream_relay.py: run_relay's position, locals and child

vars == <<pc, caller, _stop, _current_track, _ffmpeg_proc, state, args, victim,
          handle, procs, dir_exists, out_dir, todo, fetched, starts, polls,
          signals, error, relay>>

\* ------------------------------------------------------ processes and files

\* A child process: what it was started with, and where it is in its life:
\* "running", "terminating" (sent SIGTERM, still running), "killed" (sent
\* SIGKILL, not gone yet) or "exited".
NewProc(a) ==
    [media_url |-> a.media_url, start_at |-> a.start_at, status |-> "running"]

\* poll() is None: the child has not exited.
Running(p) == procs[p].status /= "exited"

RunningProcs == {p \in 1..Len(procs) : Running(p)}

\* A directory entry: who wrote it (0: it predates the program), what kind of
\* entry it is, and whether removing it fails (a permission error).
Entry(owner, kind, locked) == [owner |-> owner, kind |-> kind, locked |-> locked]

StaleEntries ==
    { Entry(0, "file", FALSE), Entry(0, "file", TRUE), Entry(0, "symlink", FALSE),
      Entry(0, "dir", FALSE), Entry(0, "dir", TRUE), Entry(0, "other", FALSE) }

\* The output directory at program start: empty, or holding one stale
\* entry of any kind.
InitDirs == {{}} \cup {{e} : e \in StaleEntries}

NoError == [site |-> "", exc |-> ""]

Terminal == {"exited", "crashed", "returned"}

\* -------------------------------------------------------------------- Init

Init ==
    /\ pc = "main"
    /\ caller = "start"
    /\ _stop = FALSE
    /\ _current_track = None
    /\ _ffmpeg_proc = 0
    /\ state = None
    /\ args = None
    /\ victim = 0
    /\ handle = 0
    /\ procs = <<>>
    /\ dir_exists \in BOOLEAN
    /\ out_dir \in InitDirs
    /\ (~dir_exists => out_dir = {})
    /\ todo = {}
    /\ fetched = <<>>
    /\ starts = <<>>
    /\ polls = 0
    /\ signals = 0
    /\ error = NoError
    /\ relay = NoRelay

\* An uncaught exception leaves the loop and ends the program.
Raise(site, exc) == pc' = "crashed" /\ error' = [site |-> site, exc |-> exc]

\* --------------------------------------------------------------------- main

\* Lines 207-228 of main: the rebuilder is constructed, the HTTP server
\* thread is started on out_dir (run_http_server), the signal handlers are
\* installed and rebuilder.loop() is entered. Nothing here creates out_dir.
StartHttp ==
    /\ pc = "main"
    /\ pc' = "while"
    /\ UNCHANGED relay
    /\ UNCHANGED <<caller, _stop, _current_track, _ffmpeg_proc, state, args, victim,
                   handle, procs, dir_exists, out_dir, todo, fetched, starts, polls,
                   signals, error>>

\* The HTTP server thread has been started (a daemon thread: it serves for
\* as long as the program lives).
Serving == pc /= "main"

\* --------------------------------------------------------- HLSRebuilder.loop

\* while not self._stop.is_set():
LoopTest ==
    /\ pc = "while"
    /\ pc' = IF _stop THEN "returned" ELSE "fetch"
    /\ UNCHANGED relay
    /\ UNCHANGED <<caller, _stop, _current_track, _ffmpeg_proc, state, args, victim,
                   handle, procs, dir_exists, out_dir, todo, fetched, starts, polls,
                   signals, error>>

\* state = fetch_state(self.api_url)
Fetch ==
    /\ pc = "fetch"
    /\ polls < MaxPolls
    /\ \E resp \in Responses :
          IF fetch_raises(resp)
          THEN /\ Raise("fetch_state", resp.err)
               /\ state' = state
          ELSE /\ pc' = "detect"
               /\ state' = fetch_state(resp)
               /\ error' = error
    /\ polls' = polls + 1
    /\ UNCHANGED relay
    /\ UNCHANGED <<caller, _stop, _current_track, _ffmpeg_proc, args, victim, handle,
                   procs, dir_exists, out_dir, todo, fetched, starts, signals>>

\* A tracked process that has exited also calls for a start.
ResyncOrRestart(track_id, current) ==
    \/ Some(track_id) /= current
    \/ (_ffmpeg_proc /= 0 /\ ~Running(_ffmpeg_proc))

\* A resync compares identities only, so every track is taken to need one.
ResyncAlways(track_id, current) == TRUE

\* if track_id != self._current_track (line 173)
ResyncRequired(track_id, current) == Some(track_id) /= current

\* The identity is never committed.
CommitNothing(track_id, current) == current

\* self._current_track = track_id (line 176)
CommitTrack(track_id, current) == Some(track_id)

\* An unavailable result forgets the last-known identity.
NextTrackForgetting(track, current) ==
    IF track = None THEN None
    ELSE IF ResyncRequired(Get(track).track_id, current)
         THEN CommitTrack(Get(track).track_id, current)
         ELSE current

\* self._current_track after the loop body has looked at `track`
\* (lines 171-176): only a track of another identity changes it.
NextTrack(track, current) ==
    IF track /= None /\ ResyncRequired(Get(track).track_id, current)
    THEN CommitTrack(Get(track).track_id, current)
    ELSE current

\* The arguments of line 177's call: the media URL built from the track id
\* (line 174) and the position.
StartArgs(track) ==
    [media_url |-> MediaUrl(track.track_id), start_at |-> track.position]

\* The start is left for a later cycle.
AfterDetectDeferred(resync) == "sleep"

\* Where the loop body goes after the comparison of line 173: into the call of
\* line 177 inside the if, else straight to the sleep of line 181.
AfterDetect(resync) == IF resync THEN "start" ELSE "sleep"

\* Lines 170-176: extract the track, compare it with the last-known identity
\* and, on a change, commit the new identity and bind _start_ffmpeg's arguments.
Detect ==
    /\ pc = "detect"
    /\ fetched' = Append(fetched, state)
    /\ _current_track' = NextTrack(LoopTrack(state), _current_track)
    /\ LET track == LoopTrack(state)
           resync == track /= None /\ ResyncRequired(Get(track).track_id, _current_track)
       IN  /\ args' = IF resync THEN Some(StartArgs(Get(track))) ELSE args
           /\ pc' = AfterDetect(resync)
    /\ UNCHANGED relay
    /\ UNCHANGED <<caller, _stop, _ffmpeg_proc, state, victim, handle, procs,
                   dir_exists, out_dir, todo, starts, polls, signals, error>>

\* self._start_ffmpeg(media_url, position) (line 177): the call, which begins
\* with self._kill_ffmpeg() (line 123).
StartCall ==
    /\ pc = "start"
    /\ starts' = Append(starts, Get(args))
    /\ caller' = "start"
    /\ pc' = "k_check"
    /\ UNCHANGED relay
    /\ UNCHANGED <<_stop, _current_track, _ffmpeg_proc, state, args, victim, handle,
                   procs, dir_exists, out_dir, todo, fetched, polls, signals, error>>

\* time.sleep(self.poll_seconds)
Sleep ==
    /\ pc = "sleep"
    /\ pc' = "while"
    /\ state' = None
    /\ args' = None
    /\ UNCHANGED relay
    /\ UNCHANGED <<caller, _stop, _current_track, _ffmpeg_proc, victim, handle, procs,
                   dir_exists, out_dir, todo, fetched, starts, polls, signals, error>>

\* --------------------------------------------------- HLSRebuilder._kill_ffmpeg

\* if self._ffmpeg_proc and self._ffmpeg_proc.poll() is None (line 101)
KillCheck ==
    /\ pc = "k_check"
    /\ victim' = _ffmpeg_proc
    /\ pc' = IF _ffmpeg_proc /= 0 /\ Running(_ffmpeg_proc) THEN "k_term" ELSE "k_clear"
    /\ UNCHANGED relay
    /\ UNCHANGED <<caller, _stop, _current_track, _ffmpeg_proc, state, args, handle,
                   procs, dir_exists, out_dir, todo, fetched, starts, polls, signals,
                   error>>

\* Popen.terminate() / Popen.kill(): the signal is sent to a child that has
\* not exited yet; sending does not wait for the child to act on it.
SendSignal(p, status) ==
    IF Running(p) THEN [procs EXCEPT ![p].status = status] ELSE procs

\* self._ffmpeg_proc.terminate(), any exception swallowed (lines 102-105)
KillTerminate ==
    /\ pc = "k_term"
    /\ procs' = SendSignal(victim, "terminating")
    /\ pc' = "k_wait"
    /\ UNCHANGED relay
    /\ UNCHANGED <<caller, _stop, _current_track, _ffmpeg_proc, state, args, victim,
                   handle, dir_exists, out_dir, todo, fetched, starts, polls, signals,
                   error>>

\* Where line 109 leaves _kill_ffmpeg after self._ffmpeg_proc.kill(): at the
\* assignment of line 110, with no second wait().
AfterKill == "k_clear"

\* A wait with no timeout: it blocks for as long as the child runs.
WaitUnbounded(running) == IF running THEN "k_wait" ELSE "k_clear"

\* wait(timeout=5) (line 106) returns once the child has exited; while it is
\* still running at the end of the grace period it raises TimeoutExpired,
\* caught at line 108.
WaitOutcome(running) == IF running THEN "k_kill" ELSE "k_clear"

\* self._ffmpeg_proc.wait(timeout=5) (lines 106-108)
KillWait ==
    /\ pc = "k_wait"
    /\ pc' = WaitOutcome(Running(victim))
    /\ UNCHANGED relay
    /\ UNCHANGED <<caller, _stop, _current_track, _ffmpeg_proc, state, args, victim,
                   handle, procs, dir_exists, out_dir, todo, fetched, starts, polls,
                   signals, error>>

\* self._ffmpeg_proc.kill() (line 109)
KillForce ==
    /\ pc = "k_kill"
    /\ procs' = SendSignal(victim, "killed")
    /\ pc' = AfterKill
    /\ UNCHANGED relay
    /\ UNCHANGED <<caller, _stop, _current_track, _ffmpeg_proc, state, args, victim,
                   handle, dir_exists, out_dir, todo, fetched, starts, polls, signals,
                   error>>

\* self._ffmpeg_proc = None (line 110), then return to the caller:
\* _start_ffmpeg goes on to _clean_out_dir, stop() returns to handle_signal.
KillClear ==
    /\ pc = "k_clear"
    /\ _ffmpeg_proc' = 0
    /\ pc' = IF caller = "start" THEN "clean" ELSE "sys_exit"
    /\ UNCHANGED relay
    /\ UNCHANGED <<caller, _stop, _current_track, state, args, victim, handle, procs,
                   dir_exists, out_dir, todo, fetched, starts, polls, signals, error>>

\* -------------------------------------------------- HLSRebuilder._clean_out_dir

\* if self.out_dir.exists(): for item in self.out_dir.iterdir() ...
\* else: self.out_dir.mkdir(parents=True, exist_ok=True)
CleanList ==
    /\ pc = "clean"
    /\ IF dir_exists
       THEN /\ todo' = out_dir
            /\ pc' = "clean_item"
            /\ UNCHANGED dir_exists
       ELSE /\ dir_exists' = TRUE
            /\ pc' = "spawn"
            /\ UNCHANGED todo
    /\ UNCHANGED relay
    /\ UNCHANGED <<caller, _stop, _current_track, _ffmpeg_proc, state, args, victim,
                   handle, procs, out_dir, fetched, starts, polls, signals, error>>

\* Whether removing the item raises out of _clean_out_dir: unlink() raises
\* on a permission error (missing_ok covers a missing file only), while
\* rmtree(ignore_errors=True) never raises.
UnlinkRaises(item) == item.kind \in {"file", "symlink"} /\ item.locked

\* The directory after the loop body has handled one item (lines 115-118):
\* files and symlinks are unlinked, directories removed unless removal fails,
\* anything else is left alone.
AfterItem(dir, item) ==
    CASE item.kind \in {"file", "symlink"} -> dir \ {item}
      [] item.kind = "dir" -> IF item.locked THEN dir ELSE dir \ {item}
      [] OTHER -> dir

\* One iteration of the for loop of line 114, or its end.
CleanItem ==
    /\ pc = "clean_item"
    /\ IF todo = {}
       THEN /\ pc' = "spawn"
            /\ UNCHANGED <<out_dir, todo, error>>
       ELSE \E item \in todo :
              IF UnlinkRaises(item)
              THEN /\ Raise("_clean_out_dir", "PermissionError")
                   /\ UNCHANGED <<out_dir, todo>>
              ELSE /\ out_dir' = AfterItem(out_dir, item)
                   /\ todo' = todo \ {item}
                   /\ UNCHANGED <<pc, error>>
    /\ UNCHANGED relay
    /\ UNCHANGED <<caller, _stop, _current_track, _ffmpeg_proc, state, args, victim,
                   handle, procs, dir_exists, fetched, starts, polls, signals>>

\* -------------------------------------------------- HLSRebuilder._start_ffmpeg

\* What subprocess.Popen(cmd) can come to.
LaunchOutcomes == {"ok", "FileNotFoundError", "PermissionError"}

\* The exception that leaves _start_ffmpeg (lines 158-161): FileNotFoundError
\* is turned into RuntimeError, any other exception passes unchanged.
LaunchError(outcome) ==
    IF outcome = "FileNotFoundError" THEN "RuntimeError" ELSE outcome

\* subprocess.Popen(cmd): the child exists from here on, the handle is not
\* stored yet.
Spawn ==
    /\ pc = "spawn"
    /\ \E outcome \in LaunchOutcomes :
          IF outcome = "ok"
          THEN /\ procs' = Append(procs, NewProc(Get(args)))
               /\ handle' = Len(procs) + 1
               /\ pc' = "assign"
               /\ error' = error
          ELSE /\ Raise("_start_ffmpeg", LaunchError(outcome))
               /\ UNCHANGED <<procs, handle>>
    /\ UNCHANGED relay
    /\ UNCHANGED <<caller, _stop, _current_track, _ffmpeg_proc, state, args, victim,
                   dir_exists, out_dir, todo, fetched, starts, polls, signals>>

\* self._ffmpeg_proc = <the Popen object> (line 159), then back in the loop
Assign ==
    /\ pc = "assign"
    /\ _ffmpeg_proc' = handle
    /\ handle' = 0
    /\ pc' = "sleep"
    /\ UNCHANGED relay
    /\ UNCHANGED <<caller, _stop, _current_track, state, args, victim, procs,
                   dir_exists, out_dir, todo, fetched, starts, polls, signals, error>>

\* ------------------------------------------------------ main.handle_signal

\* SIGINT/SIGTERM: the handler runs on the main thread between two of its
\* steps and never gives control back (it ends in sys.exit, whose SystemExit
\* unwinds the interrupted frames: their locals are gone). It calls
\* rebuilder.stop(): self._stop.set(), then self._kill_ffmpeg(). A further
\* signal during the handler enters stop() again from its start and ends in
\* the same sys.exit, so one delivery is followed.
Signal ==
    /\ pc \notin Terminal
    /\ pc /= "main"
    /\ signals = 0
    /\ signals' = signals + 1
    /\ _stop' = TRUE
    /\ caller' = "stop"
    /\ pc' = "k_check"
    /\ state' = None
    /\ args' = None
    /\ todo' = {}
    /\ handle' = 0
    /\ UNCHANGED relay
    /\ UNCHANGED <<_current_track, _ffmpeg_proc, victim, procs, dir_exists, out_dir,
                   fetched, starts, polls, error>>

\* sys.exit(0) (line 223)
\* The handler returns instead of exiting: the interrupted loop resumes, at
\* worst just before its fetch.
HandlerReturns ==
    /\ pc = "sys_exit"
    /\ pc' = "fetch"
    /\ UNCHANGED relay
    /\ UNCHANGED <<caller, _stop, _current_track, _ffmpeg_proc, state, args, victim,
                   handle, procs, dir_exists, out_dir, todo, fetched, starts, polls,
                   signals, error>>

\* sys.exit(0) (line 223): SystemExit unwinds loop() and main.
SysExit ==
    /\ pc = "sys_exit"
    /\ pc' = "exited"
    /\ UNCHANGED relay
    /\ UNCHANGED <<caller, _stop, _current_track, _ffmpeg_proc, state, args, victim,
                   handle, procs, dir_exists, out_dir, todo, fetched, starts, polls,
                   signals, error>>

\* ------------------------------------------------------------- environment
\* The environment is followed for as long as the program runs.

\* A transcode process exits: on its own, or because of a signal it was sent.
ProcExit ==
    /\ pc \notin Terminal
    /\ \E p \in RunningProcs : procs' = [procs EXCEPT ![p].status = "exited"]
    /\ UNCHANGED relay
    /\ UNCHANGED <<pc, caller, _stop, _current_track, _ffmpeg_proc, state, args,
                   victim, handle, dir_exists, out_dir, todo, fetched, starts, polls,
                   signals, error>>

\* A running transcode process writes its playlist or a segment into the
\* output directory.
ProcWrite ==
    /\ pc \notin Terminal
    /\ dir_exists
    /\ \E p \in RunningProcs :
          /\ Entry(p, "file", FALSE) \notin out_dir
          /\ out_dir' = out_dir \cup {Entry(p, "file", FALSE)}
    /\ UNCHANGED relay
    /\ UNCHANGED <<pc, caller, _stop, _current_track, _ffmpeg_proc, state, args,
                   victim, handle, procs, dir_exists, todo, fetched, starts, polls,
                   signals, error>>

\* ------------------------------------------------------------ specification

Next ==
    \/ StartHttp
    \/ LoopTest
    \/ Fetch
    \/ Detect
    \/ StartCall
    \/ Sleep
    \/ KillCheck
    \/ KillTerminate
    \/ KillWait
    \/ KillForce
    \/ KillClear
    \/ CleanList
    \/ CleanItem
    \/ Spawn
    \/ Assign
    \/ Signal
    \/ SysExit
    \/ ProcExit
    \/ ProcWrite

Spec == Init /\ [][Next]_vars

\* ------------------------------------------------ stream_relay.py: run_relay

\* The variables of api_hls_rebuilder.py, which a run of the relay leaves alone.
hlsVars == <<pc, caller, _stop, _current_track, _ffmpeg_proc, state, args, victim,
             handle, procs, dir_exists, out_dir, todo, fetched, starts, polls,
             signals, error>>

\* URLs that pass is_stream_candidate while the player page loads.
Urls == {"https://cdn/a.m3u8", "https://cdn/b.mp3", "https://cdn/c.aac"}

\* The lists on_response can have appended to `candidates` (lines 109-117):
\* any URLs, in any order, with or without repeats.
CandidateLists == UNION {[1..n -> Urls] : n \in 0..MaxCandidates}

\* args.stream_url: absent, the empty string (an empty SWARMFM_STREAM_URL),
\* or an operator-supplied URL.
StreamUrlArgs == {None, Some(""), Some("https://override/live.mp3")}

\* `not stream_url` is false (line 179): None and "" are falsy.
Given(stream_url) == stream_url /= None /\ Get(stream_url) /= ""

\* run_relay is entered; the discovery, if it is run, collects any list.
InitRelay ==
    /\ relay \in {RelayState(a, c) : a \in StreamUrlArgs, c \in CandidateLists}
    /\ pc = "main"
    /\ caller = "start"
    /\ _stop = FALSE
    /\ _current_track = None
    /\ _ffmpeg_proc = 0
    /\ state = None
    /\ args = None
    /\ victim = 0
    /\ handle = 0
    /\ procs = <<>>
    /\ dir_exists = TRUE
    /\ out_dir = {}
    /\ todo = {}
    /\ fetched = <<>>
    /\ starts = <<>>
    /\ polls = 0
    /\ signals = 0
    /\ error = NoError

\* stream_url = args.stream_url; if not stream_url: found = await
\* sniff_stream_url(...) (lines 178-180), which ends in the de-duplication loop.
RelayEntry ==
    /\ relay.pc = "run_relay"
    /\ relay' = [relay EXCEPT !.pc = IF Given(relay.stream_url) THEN "spawn" ELSE "dedupe"]
    /\ UNCHANGED hlsVars

\* Every URL counts as not seen yet.
UnseenAlways(url, seen) == TRUE

\* if url not in seen (line 128)
Unseen(url, seen) == url \notin seen

\* One iteration of `for url in candidates` (lines 127-130).
DedupeStep ==
    /\ relay.pc = "dedupe"
    /\ relay.i < Len(relay.candidates)
    /\ LET url == relay.candidates[relay.i + 1]
       IN  relay' = IF Unseen(url, relay.seen)
                    THEN [relay EXCEPT !.i = @ + 1,
                                       !.seen = @ \cup {url},
                                       !.unique = Append(@, url)]
                    ELSE [relay EXCEPT !.i = @ + 1]
    /\ UNCHANGED hlsVars

\* return unique (line 131), bound to `found` at line 180.
DedupeReturn ==
    /\ relay.pc = "dedupe"
    /\ relay.i = Len(relay.candidates)
    /\ relay' = [relay EXCEPT !.found = relay.unique, !.pc = "select"]
    /\ UNCHANGED hlsVars

\* if not found: raise RuntimeError; stream_url = found[0] (lines 181-183)
Select ==
    /\ relay.pc = "select"
    /\ relay' = IF relay.found = <<>>
                THEN [relay EXCEPT !.pc = "failed"]
                ELSE [relay EXCEPT !.stream_url = Some(relay.found[1]), !.pc = "spawn"]
    /\ UNCHANGED hlsVars

\* cmd = build_ffmpeg_cmd(stream_url, ...); proc = start_ffmpeg(cmd); the
\* signal handlers are installed (lines 186-196). A missing ffmpeg binary
\* raises RuntimeError.
RelaySpawn ==
    /\ relay.pc = "spawn"
    /\ \E found_binary \in BOOLEAN :
          relay' = IF found_binary
                   THEN [relay EXCEPT !.pc = "wait",
                                      !.proc = [url |-> Get(relay.stream_url),
                                                status |-> "running", code |-> 0]]
                   ELSE [relay EXCEPT !.pc = "failed"]
    /\ UNCHANGED hlsVars

\* SIGINT or SIGTERM is delivered during proc.wait(): shutdown() calls
\* proc.terminate() (lines 191-193) and the interrupted wait() resumes.
RelayShutdown ==
    /\ relay.pc = "wait"
    /\ relay.proc.status = "running"
    /\ relay' = [relay EXCEPT !.proc.status = "terminating"]
    /\ UNCHANGED hlsVars

\* exit_code = proc.wait() (line 198), with no timeout: it returns once the
\* child has exited; a nonzero exit code raises RuntimeError (lines 199-200).
RelayWait ==
    /\ relay.pc = "wait"
    /\ relay.proc.status = "exited"
    /\ relay' = [relay EXCEPT !.pc = IF relay.proc.code /= 0 THEN "failed" ELSE "done"]
    /\ UNCHANGED hlsVars

\* The child exits, on its own or because of the SIGTERM it was sent.
RelayChildExit ==
    /\ relay.proc.status \in {"running", "terminating"}
    /\ \E code \in {0, 1} :
          relay' = [relay EXCEPT !.proc.status = "exited", !.proc.code = code]
    /\ UNCHANGED hlsVars

\* The steps of run_relay's own thread.
RelayThread ==
    \/ RelayEntry \/ DedupeStep \/ DedupeReturn \/ Select \/ RelaySpawn \/ RelayWait

NextRelay == RelayThread \/ RelayShutdown \/ RelayChildExit

RelaySpec == InitRelay /\ [][NextRelay]_vars

\* The interpreter keeps running run_relay; nothing is assumed of the child
\* or of signals.
FairRelaySpec == RelaySpec /\ WF_vars(RelayThread)

\* ---------------------------------------------- extract_track on any payload

\* Values of track.id: strings, JSON numbers, null.
ExtractIds == {StrV("42"), StrV("43"), NumV(42), NumV(43), NullV}

\* Values of position: absent, negative, zero, positive, a non-numeric and a
\* numeric string, null, and the NaN literal json.loads accepts.
ExtractPositions ==
    {MissingV, NumV(-30), NumV(0), NumV(105), NumV(160), StrV("abc"), StrV("7"),
     NullV, NanV}

\* Every shape of decoded payload.
ExtractDocs ==
    {EmptyDoc, ListDoc, NoTrackDoc, NoIdDoc}
    \cup {Doc("track", id, pos) : id \in ExtractIds, pos \in ExtractPositions}

\* The loop has fetched its first result, of any shape, on a fresh rebuilder.
InitExtract ==
    /\ pc = "detect"
    /\ state \in {None} \cup {Some(d) : d \in ExtractDocs}
    /\ polls = 1
    /\ caller = "start"
    /\ _stop = FALSE
    /\ _current_track = None
    /\ _ffmpeg_proc = 0
    /\ args = None
    /\ victim = 0
    /\ handle = 0
    /\ procs = <<>>
    /\ dir_exists = TRUE
    /\ out_dir = {}
    /\ todo = {}
    /\ fetched = <<>>
    /\ starts = <<>>
    /\ signals = 0
    /\ error = NoError
    /\ relay = NoRelay

\* The loop body up to the call of _start_ffmpeg.
NextExtract == Detect \/ StartCall

ExtractSpec == InitExtract /\ [][NextExtract]_vars

\* The steps of the main thread: main, the loop and what it calls, and the
\* signal handler, which runs on the main thread.
MainThread ==
    \/ StartHttp \/ LoopTest \/ Fetch \/ Detect \/ StartCall \/ Sleep
    \/ KillCheck \/ KillTerminate \/ KillWait \/ KillForce \/ KillClear
    \/ CleanList \/ CleanItem \/ Spawn \/ Assign \/ SysExit

\* The initial states of Init whose stale entry, if there is one, is an entry
\* the first cleanup removes or fails on. An entry the cleanup leaves in
\* place stays in the directory for the whole run, and no step of the main
\* thread looks at it again.
FairInit ==
    /\ Init
    /\ \A e \in out_dir : UnlinkRaises(e) \/ AfterItem(out_dir, e) /= out_dir

\* The interpreter keeps running the main thread: every call the loop makes
\* returns or raises within a bounded time (urlopen and wait have timeouts,
\* sleep is finite). Nothing is assumed of the transcode processes or of
\* signals.
FairSpec == FairInit /\ [][Next]_vars /\ WF_vars(MainThread)

\* ================================================================== claims

\* C1 (as claimed): no overlap of transcode processes. At any instant at most
\* one transcode process is running, so whenever a process for a new track is
\* spawned the one spawned before it has already exited.
C1_NoOverlap == Cardinality(RunningProcs) <= 1

\* C2 (as claimed): stop postcondition. In every state where _kill_ffmpeg has
\* just returned (to _start_ffmpeg, before _clean_out_dir, or to stop(), before
\* sys.exit), the process it was supervising is no longer running.
C2_KilledHasExited ==
    pc \in {"clean", "sys_exit"} => (victim = 0 \/ ~Running(victim))

\* C3 (as claimed): shutdown leaves no orphan. Once the program has exited
\* after a shutdown signal, whatever the step the signal interrupted, stop has
\* been applied to every transcode process the rebuilder started: none is
\* still running without having been terminated and force-killed.
C3_NoOrphanAtExit ==
    pc = "exited" => \A p \in RunningProcs : procs[p].status = "killed"

\* The fetch results so far are all valid and carry one track identity.
SameTrackRun(f) ==
    /\ f /= <<>>
    /\ \A i \in 1..Len(f) :
          /\ LoopTrack(f[i]) /= None
          /\ Get(LoopTrack(f[i])).track_id = Get(LoopTrack(f[1])).track_id

\* C4: seeking does not resync. While every fetched state carries the same
\* track identity, whatever its position, _start_ffmpeg has been invoked at
\* most once, and that once for the first occurrence.
C4_SeekDoesNotResync ==
    SameTrackRun(fetched) =>
        /\ Len(starts) <= 1
        /\ (starts /= <<>> => starts[1] = StartArgs(Get(LoopTrack(fetched[1]))))

\* Three polls of one track at two or more different positions have been
\* handled with a single start.
C4_Witness ==
    /\ pc = "sleep"
    /\ Len(fetched) = 3
    /\ SameTrackRun(fetched)
    /\ Get(LoopTrack(fetched[1])).position /= Get(LoopTrack(fetched[3])).position
    /\ Len(starts) = 1

\* A step of the loop (not of the signal handler, not of the environment)
\* that belongs to a poll cycle whose fetch result is unavailable.
UnavailableCycleStep ==
    /\ pc' /= pc
    /\ signals' = signals
    /\ \/ pc = "fetch" /\ pc' = "detect" /\ LoopTrack(state') = None
       \/ pc \in {"detect", "sleep"} /\ LoopTrack(state) = None

\* C5: unavailable is a no-op. A poll cycle whose fetch result is unavailable
\* (fetch_state returned None, or extract_track found no valid track) leaves
\* _current_track and _ffmpeg_proc unchanged and enters neither _start_ffmpeg
\* nor _kill_ffmpeg: no start is recorded, no process is signalled or spawned.
C5_UnavailableIsNoOp ==
    [][UnavailableCycleStep =>
          /\ UNCHANGED <<_current_track, _ffmpeg_proc, starts, procs, victim>>
          /\ pc' \in {"detect", "sleep", "while"}]_vars

\* An unavailable cycle has completed while a track is known and its process
\* is tracked.
C5_Witness ==
    /\ pc = "sleep"
    /\ fetched /= <<>>
    /\ LoopTrack(fetched[Len(fetched)]) = None
    /\ _current_track /= None
    /\ _ffmpeg_proc /= 0

\* The detector policy as a fold over the fetch results: one start for each
\* valid state whose track identity differs from the identity of the previous
\* start, carrying the media URL of that identity and that state's position.
RECURSIVE Reference(_, _)
Reference(f, last) ==
    IF f = <<>> THEN <<>>
    ELSE LET track == LoopTrack(Head(f))
         IN  IF track /= None /\ Some(Get(track).track_id) /= last
             THEN <<[media_url |-> MediaUrl(Get(track).track_id),
                     start_at |-> Get(track).position]>>
                  \o Reference(Tail(f), Some(Get(track).track_id))
             ELSE Reference(Tail(f), last)

\* C6: the resync trace matches the detector policy. Outside the window
\* between the decision of line 173 and the call of line 177, and as long as no
\* shutdown signal has cut a cycle short, the sequence of _start_ffmpeg
\* invocations equals the reference sequence of the fetch results examined.
C6_StartsMatchReference ==
    (~_stop /\ pc /= "start") => starts = Reference(fetched, None)

\* The scenario of the specification after its unavailable ticks:
\* (42, 10.5), (42, 16.0), (43, 0) gave start(42, 10.5) then start(43, 0).
C6_Witness ==
    /\ pc = "sleep"
    /\ fetched = << Some(Doc("track", StrV("42"), NumV(105))),
                    Some(Doc("track", NumV(42), NumV(160))),
                    Some(Doc("track", StrV("43"), NumV(0))) >>
    /\ starts = << [media_url |-> "https://swarmfm.boopdev.com/assets/music/42.mp3",
                    start_at |-> Float(105)],
                   [media_url |-> "https://swarmfm.boopdev.com/assets/music/43.mp3",
                    start_at |-> Float(0)] >>

\* C7 (as claimed): fetch failures are never fatal. Whatever the failure of
\* the HTTP exchange, fetch_state returns without raising, so the program
\* never ends on an exception that rose in fetch_state.
C7_FetchNeverRaises == ~(pc = "crashed" /\ error.site = "fetch_state")

\* C8 (as claimed): cleanup failures are absorbed per entry. A failure to
\* remove an entry is not propagated, so the program never ends on an
\* exception that rose in _clean_out_dir.
C8_CleanupNeverRaises == ~(pc = "crashed" /\ error.site = "_clean_out_dir")

\* C9 (as claimed): launch failure is a hard stop. When the launch of the
\* transcode binary has failed, the error has left the loop and no transcode
\* process is active afterwards: none is tracked and none is running.
C9_LaunchFailureLeavesNone ==
    (pc = "crashed" /\ error.site = "_start_ffmpeg") =>
        (_ffmpeg_proc = 0 /\ RunningProcs = {})

\* The transcode process that is active: the tracked one, or the one just
\* spawned whose handle line 159 is about to store.
ActiveProc == IF pc = "assign" THEN handle ELSE _ffmpeg_proc

\* C10 (as claimed): the output directory holds only the active transcode's
\* artifacts. From the moment a process is spawned and for as long as it is the
\* active one, no entry of the directory was written by another transcode
\* process.
C10_OnlyActiveArtifacts ==
    ActiveProc /= 0 =>
        \A e \in out_dir : e.owner /= 0 => e.owner = ActiveProc

\* C11 (as claimed): prepare() postcondition. When _clean_out_dir returns on
\* a directory that existed, no entry that was there before the program
\* started is left, of whatever kind it is, unless its removal failed.
C11_CleanRemovesEveryKind ==
    pc = "spawn" => \A e \in out_dir : e.owner = 0 => e.locked

\* C12 (as claimed): the directory exists before serving. In every run of
\* main, from the moment the HTTP server thread is started on the output
\* directory, the directory exists.
C12_DirExistsWhenServing == Serving => dir_exists

InKill == pc \in {"k_check", "k_term", "k_wait", "k_kill", "k_clear"}

\* C13: stop never hangs. Every call of _kill_ffmpeg returns (or is cut short
\* by the shutdown handler, whose own call then returns), whatever the
\* transcode process does, a process that ignores SIGTERM and never exits
\* included.
C13_StopNeverHangs == InKill ~> ~InKill

\* The grace period expired on a process that ignored SIGTERM, it was sent
\* SIGKILL, and _kill_ffmpeg has returned.
C13_Witness ==
    /\ pc \in {"clean", "sys_exit"}
    /\ victim /= 0
    /\ procs[victim].status = "killed"

\* C14: no new cycle after shutdown. Once the stop flag is set no fetch_state
\* call is started, and the loop is eventually left (the program ends).
C14_NoCycleAfterStop ==
    /\ [][_stop => polls' = polls]_vars
    /\ _stop ~> (pc \in Terminal)

\* The stop flag was set after at least one poll and the program has ended.
C14_Witness == _stop /\ polls >= 1 /\ pc = "exited"

\* The arguments a transcode process was launched with.
ProcArgs(p) == [media_url |-> procs[p].media_url, start_at |-> procs[p].start_at]

\* C15: bounded response to a track change. Whenever the loop is at its sleep
\* or before its next fetch, every track change fetched so far has had its
\* transcode process launched, in the cycle that fetched it, and the process
\* of the latest change is the tracked one.
C15_StartedWithinCycle ==
    pc \in {"sleep", "while", "fetch"} =>
        LET ref == Reference(fetched, None)
        IN  /\ Len(procs) = Len(ref)
            /\ \A i \in 1..Len(ref) : ProcArgs(i) = ref[i]
            /\ (ref /= <<>> => _ffmpeg_proc = Len(procs))

\* The second poll fetched another track: at its sleep the second process
\* has been launched and is the tracked one.
C15_Witness ==
    /\ pc = "sleep"
    /\ polls = 2
    /\ Len(procs) = 2
    /\ _ffmpeg_proc = 2

\* A step of the loop body from the comparison of line 173.
DetectStep == pc = "detect" /\ pc' \in {"start", "sleep"}

\* C16: no automatic restart after a mid-run exit. A cycle that fetches the
\* last-known identity goes to its sleep with no start invoked and no process
\* launched, whatever has become of the transcode process, its having exited
\* on its own included; and a start is only ever invoked for an identity other
\* than that of the start before it.
C16_NoAutoRestart ==
    [][ /\ ( /\ DetectStep
             /\ LoopTrack(state) /= None
             /\ Some(Get(LoopTrack(state)).track_id) = _current_track )
           => (pc' = "sleep" /\ UNCHANGED <<starts, procs, _ffmpeg_proc>>)
        /\ (starts' /= starts /\ starts /= <<>>)
           => starts'[Len(starts')].media_url /= starts[Len(starts)].media_url
      ]_vars

\* The tracked process has exited without having been signalled, and the
\* loop has just fetched the same track again.
C16_Witness ==
    /\ pc = "detect"
    /\ signals = 0
    /\ Len(starts) = 1
    /\ _ffmpeg_proc = 1
    /\ procs[1].status = "exited"
    /\ LoopTrack(state) /= None
    /\ Some(Get(LoopTrack(state)).track_id) = _current_track

\* _current_track names the track of the latest _start_ffmpeg invocation
\* (None while there has been none).
TrackOfLastStart ==
    IF starts = <<>> THEN _current_track = None
    ELSE /\ _current_track /= None
         /\ MediaUrl(Get(_current_track)) = starts[Len(starts)].media_url

\* C20 (as claimed): in every reachable state _current_track equals the
\* track identity of the most recent start invocation.
C20_TrackOfLastStartAlways == TrackOfLastStart

\* C20 (amended): the last-known identity is committed before the launch is
\* attempted. Outside the window between the assignment of line 176 and the
\* call of line 177, and as long as no shutdown signal has cut a cycle short,
\* _current_track names the track of the most recent _start_ffmpeg
\* invocation, whether that invocation is still running, succeeded or raised;
\* inside the window it already names the track about to be started. Once
\* _start_ffmpeg has raised, for a failed launch or a failed cleanup, no
\* process is tracked and the loop has ended.
C20_CommittedBeforeLaunch ==
    /\ (~_stop /\ pc /= "start") => TrackOfLastStart
    /\ pc = "start" => (_current_track /= None
                        /\ MediaUrl(Get(_current_track)) = Get(args).media_url)
    /\ (pc = "crashed" /\ error.site \in {"_start_ffmpeg", "_clean_out_dir"}) =>
          (TrackOfLastStart /\ _ffmpeg_proc = 0)

\* The launch for the second track failed: the last-known identity is that
\* track's, and no process is tracked.
C20_Witness ==
    /\ pc = "crashed"
    /\ error.site = "_start_ffmpeg"
    /\ Len(starts) = 2
    /\ Len(procs) = 1
    /\ _current_track = Some("43")

\* C17 (as claimed): a remote state is well formed. The last-known identity
\* is a real track identity of a fetched payload (a string or a number under
\* track.id), and every start offset handed to _start_ffmpeg is a number
\* that is not negative.
C17_WellFormedState ==
    /\ _current_track /= None =>
          \E i \in 1..Len(fetched) :
             /\ fetched[i] /= None
             /\ Get(fetched[i]).shape = "track"
             /\ Get(fetched[i]).id.t \in {"str", "num"}
             /\ PyStr(Get(fetched[i]).id) = Get(_current_track)
    /\ \A i \in 1..Len(starts) :
          ~starts[i].start_at.nan /\ starts[i].start_at.n >= 0

\* The position at which url is first observed in s.
FirstSeen(s, url) == CHOOSE k \in 1..Len(s) : s[k] = url /\ \A j \in 1..(k - 1) : s[j] /= url

\* u holds exactly the distinct elements of s, each once, in the order of
\* their first observation.
OrderedDistinct(u, s) ==
    /\ \A i, j \in 1..Len(u) : i /= j => u[i] /= u[j]
    /\ {u[i] : i \in 1..Len(u)} = {s[k] : k \in 1..Len(s)}
    /\ \A i, j \in 1..Len(u) : i < j => FirstSeen(s, u[i]) < FirstSeen(s, u[j])

\* C18: the discovery result is ordered and duplicate-free. Once
\* sniff_stream_url has returned, its list holds exactly the distinct observed
\* candidates in order of first observation; and the transcode run_relay
\* starts is fed the operator-supplied stream URL when one is given, else the
\* first element of that list.
C18_OrderedDistinctFirst ==
    /\ (relay.pc \in {"select", "spawn", "wait", "done", "failed"} /\ ~Given(relay.arg))
          => OrderedDistinct(relay.found, relay.candidates)
    /\ relay.proc.status /= "none" =>
          relay.proc.url = IF Given(relay.arg) THEN Get(relay.arg) ELSE relay.found[1]

\* b, a, b was observed: the list returned is b, a and the transcode runs
\* on b.
C18_Witness ==
    /\ relay.pc = "wait"
    /\ relay.candidates = <<"https://cdn/b.mp3", "https://cdn/a.m3u8", "https://cdn/b.mp3">>
    /\ relay.found = <<"https://cdn/b.mp3", "https://cdn/a.m3u8">>
    /\ relay.proc.url = "https://cdn/b.mp3"

\* C19 (as claimed): relay shutdown follows the supervisor's stop contract.
\* Once a shutdown signal has been delivered while the child runs, run_relay
\* eventually returns or raises, whatever the child does.
C19_RelayShutdownReturns ==
    (relay.proc.status = "terminating") ~> (relay.pc \in {"done", "failed"})

====
